---------------------------- MODULE Spec2Model ----------------------------
(***************************************************************************)
(* A model of the pdrm package (rescorNAPS): the renewal-process history   *)
(* generators, the multi-state PV model, the per-hour battery dispatch,    *)
(* the net-load composition and the convergence-driven evaluation loop.    *)
(*                                                                         *)
(* Numbers.  The code computes on floats; the model computes on exact      *)
(* integers.  Every power or energy is an integer count of a unit of       *)
(* 0.0005 kW (one hour steps, so kW and kWh coincide).  A state of charge  *)
(* is the numerator of a fraction whose denominator is bess_capacity       *)
(* (soc = numerator / bess_capacity), so that soc + power / capacity is    *)
(* numerator + power and (1 - soc) * capacity is capacity - numerator.     *)
(* solar_ghi is counted in quarters.  Floating-point rounding is not       *)
(* modelled.  The 8760 hours of a year and the 100 years of a batch are    *)
(* scaled down to HoursPerYear and BatchYears.                             *)
(***************************************************************************)
EXTENDS Integers, Sequences, FiniteSets, TLC

VARIABLES
    prog,                       \* the function entered from outside
    pc,                         \* position in the running function
    stack,                      \* return positions of the pending calls
    \* bess_operation: the arguments and the result of the latest call
    bo_args, bo_ret,
    \* bess_history / loadpoint_history
    h_fn, h_years, h_T, h_state, h_last,
    \* msmpv
    m_years, number_of_modules, acm_failure_rate, acm_repair_rate,
    hourly_output_per_module, m_T, pv_state, pv_output, m_last,
    \* equivalent_load
    hourly_load, acm_module_rating, solar_ghi, years, customer_der_type,
    lp_syn_history, bess_state_of_charge_min, pv_capacity, bess_capacity,
    bess_power_limit, bess_state_of_charge, net_load, pv_system_output,
    bess_state, T, soc_trace,
    \* customer_evaluation_grid_connected
    cov_convergence, cov, year_counter, acc, load_point_history,
    residence_state, ens_by_der, indices,
    ref                         \* the yearly samples as the specification
                                \* defines them, summed over the run

ctlVars == <<prog, pc, stack>>
boVars == <<bo_args, bo_ret>>
hVars == <<h_fn, h_years, h_T, h_state, h_last>>
mVars == <<m_years, number_of_modules, acm_failure_rate, acm_repair_rate,
           hourly_output_per_module, m_T, pv_state, pv_output, m_last>>
eParams == <<hourly_load, acm_module_rating, solar_ghi, years,
             customer_der_type, lp_syn_history, bess_state_of_charge_min,
             pv_capacity, bess_capacity, bess_power_limit>>
eLocals == <<bess_state_of_charge, net_load, pv_system_output, bess_state,
             T, soc_trace>>
cVars == <<cov_convergence, cov, year_counter, acc, load_point_history,
           residence_state, ens_by_der, indices, ref>>
vars == <<ctlVars, boVars, hVars, mVars, eParams, eLocals, cVars>>

-----------------------------------------------------------------------------
(* Bounds of the model *)

\* hours in a year (8760 in the code)
HoursPerYear == 2
\* largest number of simulated years of one history
MaxYears == 2
\* largest ordinary sojourn draw, in hours
MaxSojourn == 3
\* bess_operation called on its own: ranges of its arguments
MaxPower == 5
MaxLoad == 3
MaxPv == 8

\* no value yet: of a record, and of a name
None == [kind |-> "None"]
Unset == "unset"

Min(a, b) == IF b < a THEN b ELSE a

Hours(y) == HoursPerYear * y

\* a[i] of the code is a[i + 1] of the model
At(a, i) == a[i + 1]

RECURSIVE SumSeq(_)
SumSeq(s) == IF s = <<>> THEN 0 ELSE s[1] + SumSeq(Tail(s))

-----------------------------------------------------------------------------
(* bess_model.bess_operation *)

\* bess_operation without the floor of the discharging branch
BessOperation_NoFloor(power_limit, soc, soc_min, capacity, load, pv) ==
    LET excess_pv == pv - load IN
    IF excess_pv > 0
    THEN LET charging_power == Min(excess_pv, power_limit)
             bess_acceptable_power_to_charge == capacity - soc
         IN  IF bess_acceptable_power_to_charge > charging_power
             THEN [net_load |-> load - (pv - charging_power),
                   soc |-> soc + charging_power]
             ELSE [net_load |-> load - (pv - bess_acceptable_power_to_charge),
                   soc |-> capacity]
    ELSE LET discharging_power == Min(-excess_pv, power_limit)
         IN  [net_load |-> load - discharging_power - pv,
              soc |-> soc - discharging_power]

\* bess_operation charging with the whole surplus, the power limit forgotten
BessOperation_Unlimited(power_limit, soc, soc_min, capacity, load, pv) ==
    LET excess_pv == pv - load IN
    IF excess_pv > 0
    THEN LET charging_power == excess_pv
             bess_acceptable_power_to_charge == capacity - soc
         IN  IF bess_acceptable_power_to_charge > charging_power
             THEN [net_load |-> load - (pv - charging_power),
                   soc |-> soc + charging_power]
             ELSE [net_load |-> load - (pv - bess_acceptable_power_to_charge),
                   soc |-> capacity]
    ELSE LET discharging_power == Min(-excess_pv, power_limit)
             bess_available_power_to_discharge == soc - soc_min
         IN  IF bess_available_power_to_discharge > discharging_power
             THEN [net_load |-> load - discharging_power - pv,
                   soc |-> soc - discharging_power]
             ELSE [net_load |-> load - bess_available_power_to_discharge - pv,
                   soc |-> soc_min]

BessOperation(power_limit, soc, soc_min, capacity, load, pv) ==
    LET excess_pv == pv - load IN
    IF excess_pv > 0
    THEN LET charging_power == Min(excess_pv, power_limit)
             bess_acceptable_power_to_charge == capacity - soc
         IN  IF bess_acceptable_power_to_charge > charging_power
             THEN [net_load |-> load - (pv - charging_power),
                   soc |-> soc + charging_power]
             ELSE [net_load |-> load - (pv - bess_acceptable_power_to_charge),
                   soc |-> capacity]
    ELSE LET discharging_power == Min(-excess_pv, power_limit)
             bess_available_power_to_discharge == soc - soc_min
         IN  IF bess_available_power_to_discharge > discharging_power
             THEN [net_load |-> load - discharging_power - pv,
                   soc |-> soc - discharging_power]
             ELSE [net_load |-> load - bess_available_power_to_discharge - pv,
                   soc |-> soc_min]

\* the record of one call
BessArgs(power_limit, soc, soc_min, capacity, load, pv) ==
    [power_limit |-> power_limit, soc |-> soc, soc_min |-> soc_min,
     capacity |-> capacity, load |-> load, pv |-> pv]

BessApply(a) ==
    BessOperation(a.power_limit, a.soc, a.soc_min, a.capacity, a.load, a.pv)

-----------------------------------------------------------------------------
(* Calls and returns.  A callee returns to the position on top of the stack; *)
(* the function entered from outside ends at "done".  An exception is not    *)
(* caught anywhere in the package: it ends the run at a position named after *)
(* the exception.                                                            *)

Return ==
    IF stack = <<>>
    THEN pc' = "done" /\ stack' = stack
    ELSE pc' = Head(stack) /\ stack' = Tail(stack)

Raise(exception) == pc' = exception /\ stack' = stack

Errors == {"OverflowError", "ValueError"}

-----------------------------------------------------------------------------
(* numpy: a[lo:hi] = v.  The slice is clipped to the array; lo and hi are   *)
(* never negative here.                                                     *)

\* a slice that is not clipped to the array (a Python list grows)
SliceIndices_Unclipped(len, lo, hi) == lo..(hi - 1)

SliceIndices(len, lo, hi) == {i \in 0..(len - 1) : lo <= i /\ i < hi}

\* the assignment of val[i] at every index i of idx
SetSlice(a, idx, val) ==
    [k \in (DOMAIN a) \cup {i + 1 : i \in idx} |->
        IF (k - 1) \in idx THEN val[k - 1] ELSE a[k]]

-----------------------------------------------------------------------------
(* The draws.  int(np.ceil(-np.log(np.random.uniform()) / rate)) is an      *)
(* integer >= 1 for a draw in (0, 1) and a positive rate, and raises        *)
(* OverflowError for the draw 0.0 (np.random.uniform draws from [0, 1)).    *)

\* years of margin of msmpv's buffer
MarginYears == 10

\* a sojourn longer than msmpv's whole buffer
LongSojourn == Hours(MaxYears + MarginYears) + 1

Sojourns == (1..MaxSojourn) \cup {LongSojourn}

-----------------------------------------------------------------------------
(* bess_model.bess_history and dist_sys_model.loadpoint_history *)

NewHistory(y) == [k \in 1..Hours(y) |-> TRUE]

EnterHistory(fn, y) ==
    /\ h_fn' = fn
    /\ h_years' = y
    /\ h_T' = 0
    /\ h_state' = NewHistory(y)
    /\ h_last' = None

\* one pass of the while loop: up-sojourn, down-sojourn, mark, advance
RenewalIteration ==
    /\ pc = "h_while"
    /\ h_T < Hours(h_years)
    /\ \/ \E time_to_failure \in Sojourns, time_to_repair \in Sojourns :
            LET T1 == h_T + time_to_failure
                idx == SliceIndices(Len(h_state), T1, T1 + time_to_repair)
                false == [i \in idx |-> FALSE]
            IN  /\ h_state' = SetSlice(h_state, idx, false)
                /\ h_T' = T1 + time_to_repair
                /\ h_last' = [T0 |-> h_T, time_to_failure |-> time_to_failure,
                              time_to_repair |-> time_to_repair, written |-> idx]
                /\ UNCHANGED <<h_fn, h_years, pc, stack>>
       \/ /\ Raise("OverflowError")
          /\ UNCHANGED hVars

BessHistoryStep ==
    /\ h_fn = "bess_history"
    /\ RenewalIteration
    /\ UNCHANGED <<prog, boVars, mVars, eParams, eLocals, cVars>>

LoadpointHistoryStep ==
    /\ h_fn = "loadpoint_history"
    /\ RenewalIteration
    /\ UNCHANGED <<prog, boVars, mVars, eParams, eLocals, cVars>>

\* return bess_state / syn_history: the cursor goes out of scope
HistoryReturn ==
    /\ pc = "h_while"
    /\ ~(h_T < Hours(h_years))
    /\ h_T' = 0
    /\ h_last' = None
    /\ Return
    /\ UNCHANGED <<prog, boVars, h_fn, h_years, h_state, mVars, eParams,
                   eLocals, cVars>>

-----------------------------------------------------------------------------
(* pv_model.msmpv.  The rates are integers over a common denominator; a     *)
(* uniform draw is u / UniformDen.                                          *)

UniformDen == 4
Uniforms == 0..(UniformDen - 1)

\* acm_failure_rate and acm_repair_rate are passed on as they are
EnterMsmpv(y, n, output) ==
    /\ m_years' = y
    /\ number_of_modules' = n
    /\ UNCHANGED <<acm_failure_rate, acm_repair_rate>>
    /\ hourly_output_per_module' = output
    /\ m_T' = 0
    /\ pv_state' = 1
    /\ pv_output' = [k \in 1..Hours(y + MarginYears) |-> 1]
    /\ m_last' = None

\* the two branches exchanged
PvNextState_Reversed(state, goes_down) ==
    IF goes_down THEN state - 1 ELSE state + 1

\* the state the chain leaves for, given the draw u
PvNextState(state, goes_down) == IF goes_down THEN state + 1 ELSE state - 1

\* one pass of the while loop
MsmpvStep ==
    /\ pc = "m_while"
    /\ m_T < Hours(m_years)
    /\ UNCHANGED <<prog, boVars, hVars, eParams, eLocals, cVars,
                   m_years, number_of_modules, acm_failure_rate,
                   acm_repair_rate, hourly_output_per_module>>
    /\ \E u \in Uniforms :
        LET up == (pv_state - 1) * acm_repair_rate
            down == (number_of_modules - (pv_state - 1)) * acm_failure_rate
            \* u / UniformDen > up / (up + down)
            goes_down == u * (up + down) > up * UniformDen
            rate == IF goes_down THEN down ELSE up
            pv_next_state == PvNextState(pv_state, goes_down)
            output(i) == (number_of_modules - (pv_state - 1))
                            * At(hourly_output_per_module, i % HoursPerYear)
            values(idx) == [i \in idx |-> output(i)]
        IN  \/ /\ rate > 0
               /\ \E time_to_transition \in Sojourns :
                    LET idx == SliceIndices(Len(pv_output), m_T,
                                            m_T + time_to_transition)
                    IN  IF Cardinality(idx) = time_to_transition
                        THEN /\ pv_output' = SetSlice(pv_output, idx, values(idx))
                             /\ m_T' = m_T + time_to_transition
                             /\ pv_state' = pv_next_state
                             /\ m_last' = [from |-> pv_state,
                                           to |-> pv_next_state, T0 |-> m_T,
                                           time_to_transition |->
                                               time_to_transition]
                             /\ UNCHANGED <<pc, stack>>
                        ELSE \* the slice is shorter than the values assigned
                             /\ Raise("ValueError")
                             /\ m_last' = [from |-> pv_state,
                                           to |-> pv_next_state, T0 |-> m_T,
                                           time_to_transition |->
                                               time_to_transition]
                             /\ UNCHANGED <<m_T, pv_state, pv_output>>
            \/ \* the draw 0.0, or a division by the rate 0: int(inf)
               /\ Raise("OverflowError")
               /\ UNCHANGED <<m_T, pv_state, pv_output, m_last>>

\* return pv_output[:8760 * years]: the cursor and the chain's state go out
\* of scope
MsmpvReturn ==
    /\ pc = "m_while"
    /\ ~(m_T < Hours(m_years))
    /\ pv_output' = SubSeq(pv_output, 1, Hours(m_years))
    /\ m_T' = 0
    /\ pv_state' = 0
    /\ m_last' = None
    /\ Return
    /\ UNCHANGED <<prog, boVars, hVars, eParams, eLocals, cVars,
                   m_years, number_of_modules, acm_failure_rate,
                   acm_repair_rate, hourly_output_per_module>>

-----------------------------------------------------------------------------
(* residential_model.equivalent_load *)

DerTypes == {"no_der", "pv", "pv_bess", "pv_bess_standalone"}

CeilDiv(a, b) == (a + b - 1) \div b

\* np.ceil(pv_capacity / acm_module_rating)
NumberOfAcmModules(capacity, rating) == CeilDiv(capacity, rating)

\* acm_module_rating * derating_factor * (solar_ghi / 1), limited to the
\* module rating: the derating factor is 0.8 = 4 / 5, solar_ghi is in quarters
OutputPerModule(rating, ghi) ==
    [h \in DOMAIN ghi |->
        LET output == (rating * 4 * ghi[h]) \div (5 * 4)
        IN  IF output > rating THEN rating ELSE output]

\* the index limited to the last hour of the year instead of wrapped
LoadAt_NoWrap(load, t) == At(load, Min(t, HoursPerYear - 1))

\* hourly_load[T % 8760]
LoadAt(load, t) == At(load, t % HoursPerYear)

\* lines 63-78: the initialization, common to every customer_der_type
\* (bess_state_of_charge = 1; net_load = np.zeros(8760 * years) is set by
\* the callers of this definition, 'no_der' rebinding it at once)
EquivalentLoadInit ==
    /\ bess_state_of_charge' = bess_capacity
    /\ soc_trace' = <<bess_capacity>>

\* 'no_der': net_load = hourly_load[np.arange(8760 * years) % 8760]
EquivalentLoadNoDer ==
    /\ pc = "e_start"
    /\ customer_der_type = "no_der"
    /\ EquivalentLoadInit
    /\ net_load' = [k \in 1..Hours(years) |-> LoadAt(hourly_load, k - 1)]
    /\ Return
    /\ UNCHANGED <<prog, boVars, hVars, mVars, eParams, cVars,
                   pv_system_output, bess_state, T>>

\* 'pv', 'pv_bess', 'pv_bess_standalone': the call of msmpv
EquivalentLoadCallMsmpv ==
    /\ pc = "e_start"
    /\ customer_der_type \in {"pv", "pv_bess", "pv_bess_standalone"}
    /\ EquivalentLoadInit
    /\ net_load' = [k \in 1..Hours(years) |-> 0]
    /\ EnterMsmpv(years, NumberOfAcmModules(pv_capacity, acm_module_rating),
                  OutputPerModule(acm_module_rating, solar_ghi))
    /\ pc' = "m_while"
    /\ stack' = <<"e_msmpv_returned">> \o stack
    /\ UNCHANGED <<prog, boVars, hVars, eParams, cVars,
                   pv_system_output, bess_state, T>>

\* 'pv': the load point up: load - pv output; down: the load
EquivalentLoadPv ==
    /\ pc = "e_msmpv_returned"
    /\ customer_der_type = "pv"
    /\ pv_system_output' = pv_output
    /\ net_load' = [k \in 1..Hours(years) |->
                        IF lp_syn_history[k]
                        THEN LoadAt(hourly_load, k - 1) - pv_output[k]
                        ELSE LoadAt(hourly_load, k - 1)]
    /\ Return
    /\ UNCHANGED <<prog, boVars, hVars, mVars, eParams, cVars,
                   bess_state_of_charge, bess_state, T, soc_trace>>

\* 'pv_bess', 'pv_bess_standalone': the call of bess_history
EquivalentLoadCallBessHistory ==
    /\ pc = "e_msmpv_returned"
    /\ customer_der_type \in {"pv_bess", "pv_bess_standalone"}
    /\ pv_system_output' = pv_output
    /\ EnterHistory("bess_history", years)
    /\ pc' = "h_while"
    /\ stack' = <<"e_bess_history_returned">> \o stack
    /\ UNCHANGED <<prog, boVars, mVars, eParams, cVars,
                   bess_state_of_charge, net_load, bess_state, T, soc_trace>>

EquivalentLoadEnterLoop ==
    /\ pc = "e_bess_history_returned"
    /\ bess_state' = h_state
    /\ T' = 0
    /\ pc' = "e_for"
    /\ UNCHANGED <<prog, stack, boVars, hVars, mVars, eParams, cVars,
                   bess_state_of_charge, net_load, pv_system_output,
                   soc_trace>>

\* the battery up: the hour is dispatched by bess_operation
HourDispatched ==
    LET a == BessArgs(bess_power_limit, bess_state_of_charge,
                      bess_state_of_charge_min, bess_capacity,
                      LoadAt(hourly_load, T), At(pv_system_output, T))
        r == BessApply(a)
    IN  /\ bo_args' = a
        /\ bo_ret' = r
        /\ net_load' = [net_load EXCEPT ![T + 1] = r.net_load]
        /\ bess_state_of_charge' = r.soc

\* the battery down: the hour's net load is given, the charge is kept
HourUndispatched(value) ==
    /\ net_load' = [net_load EXCEPT ![T + 1] = value]
    /\ UNCHANGED <<boVars, bess_state_of_charge>>

\* the load point looked at first: no dispatch while it is down
HourGridConnected_GridFirst ==
    IF ~At(lp_syn_history, T)
    THEN HourUndispatched(LoadAt(hourly_load, T))
    ELSE IF At(bess_state, T)
         THEN HourDispatched
         ELSE HourUndispatched(LoadAt(hourly_load, T)
                                    - At(pv_system_output, T))

\* one hour of the 'pv_bess' loop
HourGridConnected ==
    IF At(bess_state, T)
    THEN HourDispatched
    ELSE IF ~At(bess_state, T) /\ At(lp_syn_history, T)
         THEN HourUndispatched(LoadAt(hourly_load, T)
                                    - At(pv_system_output, T))
         ELSE HourUndispatched(LoadAt(hourly_load, T))

\* one hour of the 'pv_bess_standalone' loop
HourStandalone ==
    IF At(bess_state, T)
    THEN HourDispatched
    ELSE HourUndispatched(LoadAt(hourly_load, T))

EquivalentLoadHourGridConnected ==
    /\ pc = "e_for"
    /\ customer_der_type = "pv_bess"
    /\ T < Hours(years)
    /\ HourGridConnected
    /\ T' = T + 1
    /\ soc_trace' = Append(soc_trace, bess_state_of_charge')
    /\ UNCHANGED <<ctlVars, hVars, mVars, eParams, cVars, pv_system_output,
                   bess_state>>

EquivalentLoadHourStandalone ==
    /\ pc = "e_for"
    /\ customer_der_type = "pv_bess_standalone"
    /\ T < Hours(years)
    /\ HourStandalone
    /\ T' = T + 1
    /\ soc_trace' = Append(soc_trace, bess_state_of_charge')
    /\ UNCHANGED <<ctlVars, hVars, mVars, eParams, cVars, pv_system_output,
                   bess_state>>

EquivalentLoadReturn ==
    /\ pc = "e_for"
    /\ ~(T < Hours(years))
    /\ Return
    /\ UNCHANGED <<prog, boVars, hVars, mVars, eParams, eLocals, cVars>>

-----------------------------------------------------------------------------
(* The inputs *)

\* acm_failure_rate, acm_repair_rate
Rates == {1, 2}

MaxModules == 2

\* an hourly profile of one year
Profiles(levels) == [1..HoursPerYear -> levels]

OutputLevels == {0, 2, 5}

\* the load and solar_ghi profiles of equivalent_load: hour h of the year has
\* the h-th level of the tuple, cyclically
Cyclic(levels) ==
    [h \in 1..HoursPerYear |-> levels[((h - 1) % Len(levels)) + 1]]
LoadProfiles == {Cyclic(<<4, 2>>), Cyclic(<<3, 6, 0>>)}
GhiProfiles == {Cyclic(<<6, 0>>), Cyclic(<<2, 6, 6>>)}
LoadYears == {1, 2}
ModuleRatings == {5}
PvCapacities == {5, 6}
BessCapacities == {4}
SocMins == {1}
PowerLimits == {0, 2}

\* the load-point histories handed to equivalent_load: every hour is up in
\* two of them and down in the other two
Histories(y) ==
    {[k \in 1..Hours(y) |-> b] : b \in BOOLEAN}
    \cup {[k \in 1..Hours(y) |-> (k % 2 = r)] : r \in {0, 1}}

-----------------------------------------------------------------------------
(* The functions entered from outside *)

IdleBo == bo_args = None /\ bo_ret = None

IdleH ==
    /\ h_fn = Unset /\ h_years = 0 /\ h_T = 0 /\ h_state = <<>>
    /\ h_last = None

IdleMLocals ==
    /\ m_years = 0 /\ number_of_modules = 0
    /\ hourly_output_per_module = <<>> /\ m_T = 0 /\ pv_state = 0
    /\ pv_output = <<>> /\ m_last = None

IdleM == IdleMLocals /\ acm_failure_rate = 0 /\ acm_repair_rate = 0

IdleELocals ==
    /\ bess_state_of_charge = 0 /\ net_load = <<>>
    /\ pv_system_output = <<>> /\ bess_state = <<>> /\ T = 0
    /\ soc_trace = <<>>

IdleE ==
    /\ hourly_load = <<>> /\ acm_module_rating = 0 /\ solar_ghi = <<>>
    /\ years = 0 /\ customer_der_type = Unset /\ lp_syn_history = <<>>
    /\ bess_state_of_charge_min = 0 /\ pv_capacity = 0
    /\ bess_capacity = 0 /\ bess_power_limit = 0
    /\ IdleELocals

IdleC ==
    /\ cov_convergence = None /\ cov = None /\ year_counter = 0
    /\ acc = None /\ load_point_history = <<>>
    /\ residence_state = <<>> /\ ens_by_der = <<>>
    /\ indices = None /\ ref = None

\* the frames of the callees that have returned
ClearCallees ==
    /\ bo_args' = None /\ bo_ret' = None
    /\ h_fn' = Unset /\ h_years' = 0 /\ h_T' = 0 /\ h_state' = <<>>
    /\ h_last' = None
    /\ m_years' = 0 /\ number_of_modules' = 0
    /\ hourly_output_per_module' = <<>> /\ m_T' = 0 /\ pv_state' = 0
    /\ pv_output' = <<>> /\ m_last' = None
    /\ bess_state_of_charge' = 0 /\ net_load' = <<>>
    /\ pv_system_output' = <<>> /\ bess_state' = <<>> /\ T' = 0
    /\ soc_trace' = <<>>

\* bess_operation on its own
\* bess_capacity of bess_operation called on its own
Capacities == {2, 10}

InitBess ==
    /\ prog = "bess_operation" /\ pc = "bo_call" /\ stack = <<>>
    /\ \E capacity \in Capacities :
       \E soc \in 0..capacity, soc_min \in 0..capacity :
       \E power_limit \in (-1)..MaxPower, load \in 0..MaxLoad,
          pv \in 0..MaxPv :
            bo_args = BessArgs(power_limit, soc, soc_min, capacity, load, pv)
    /\ bo_ret = None
    /\ IdleH /\ IdleM /\ IdleE /\ IdleC

BessOperationCall ==
    /\ pc = "bo_call"
    /\ bo_ret' = BessApply(bo_args)
    /\ Return
    /\ UNCHANGED <<prog, bo_args, hVars, mVars, eParams, eLocals, cVars>>


\* bess_history and loadpoint_history on their own
InitHistory ==
    /\ prog \in {"bess_history", "loadpoint_history"}
    /\ pc = "h_while" /\ stack = <<>>
    /\ h_fn = prog
    /\ h_years \in 1..MaxYears
    /\ h_T = 0
    /\ h_state = NewHistory(h_years)
    /\ h_last = None
    /\ IdleBo /\ IdleM /\ IdleE /\ IdleC


\* msmpv on its own
InitMsmpv ==
    /\ prog = "msmpv" /\ pc = "m_while" /\ stack = <<>>
    /\ m_years \in 1..MaxYears
    /\ number_of_modules \in 1..MaxModules
    /\ acm_failure_rate \in Rates
    /\ acm_repair_rate \in Rates
    /\ hourly_output_per_module \in Profiles(OutputLevels)
    /\ m_T = 0
    /\ pv_state = 1
    /\ pv_output = [k \in 1..Hours(m_years + MarginYears) |-> 1]
    /\ m_last = None
    /\ IdleBo /\ IdleH /\ IdleE /\ IdleC


\* equivalent_load on its own
InitLoad ==
    /\ prog = "equivalent_load" /\ pc = "e_start" /\ stack = <<>>
    /\ hourly_load \in LoadProfiles
    /\ acm_module_rating \in ModuleRatings
    /\ acm_failure_rate = 1
    /\ acm_repair_rate = 1
    /\ solar_ghi \in GhiProfiles
    /\ years \in LoadYears
    /\ customer_der_type \in DerTypes
    /\ lp_syn_history \in Histories(years)
    /\ bess_state_of_charge_min \in SocMins
    /\ pv_capacity \in PvCapacities
    /\ bess_capacity \in BessCapacities
    /\ bess_power_limit \in PowerLimits
    /\ IdleELocals
    /\ IdleBo /\ IdleH /\ IdleMLocals /\ IdleC

\* bess_operation, bess_history, loadpoint_history, msmpv and equivalent_load,
\* each entered from outside
Init == InitBess \/ InitHistory \/ InitMsmpv \/ InitLoad

Next ==
    \/ BessOperationCall
    \/ LoadpointHistoryStep
    \/ EquivalentLoadNoDer
    \/ EquivalentLoadCallMsmpv
    \/ MsmpvStep
    \/ MsmpvReturn
    \/ EquivalentLoadPv
    \/ EquivalentLoadCallBessHistory
    \/ BessHistoryStep
    \/ HistoryReturn
    \/ EquivalentLoadEnterLoop
    \/ EquivalentLoadHourGridConnected
    \/ EquivalentLoadHourStandalone
    \/ EquivalentLoadReturn

Spec == Init /\ [][Next]_vars

-----------------------------------------------------------------------------
(* ceval_indices.customer_evaluation_grid_connected *)

\* years of one batch (100 in the code)
BatchYears == 2
\* the model stops after this many batches; the code has no such limit
MaxBatches == 2

NaN == [kind |-> "nan"]
Inf == [kind |-> "inf"]
Ratio(n, d) == [kind |-> "num", num |-> n, den |-> d]

\* np.round(x, 3) of x half-thousandths: to the nearest thousandth, a half
\* to the even one
Round3(x) ==
    LET q == x \div 2
    IN  IF x % 2 = 0 THEN x
        ELSE IF q % 2 = 0 THEN 2 * q ELSE 2 * q + 2

\* a year's slice that takes in the first hour of the next year
YearSlice_Overlapping(a, i) ==
    SubSeq(a, Hours(i) + 1, Min(Hours(i + 1) + 1, Len(a)))

\* a[8760 * i : 8760 * (i + 1)]
YearSlice(a, i) == SubSeq(a, Hours(i) + 1, Hours(i + 1))

\* np.count_nonzero(state[:-1] > state[1:])
CountDrops(state) ==
    Cardinality({j \in 1..(Len(state) - 1) : state[j] /\ ~state[j + 1]})

\* np.count_nonzero(state)
CountNonzero(state) == Cardinality({j \in 1..Len(state) : state[j]})

\* values[mask].sum() (0 for an empty selection), flag FALSE for values[~mask]
MaskedSum(values, mask, flag) ==
    SumSeq([j \in 1..Len(values) |-> IF mask[j] = flag THEN values[j] ELSE 0])

\* the yearly samples of one batch, lines 135-171
SampleIf(state) == CountDrops(state)
SampleId(state) == Len(state) - CountNonzero(state)
SampleEns(ens, state) == MaskedSum(ens, state, FALSE)
SampleEnergyFromGrid(ens, state) == MaskedSum(ens, state, TRUE)
SampleEnsNoder(load, lp_state) == MaskedSum(load, lp_state, FALSE)

EmptyAcc ==
    [interruption_frequency |-> <<>>, interruption_duration |-> <<>>,
     energy_not_served |-> <<>>, energy_from_grid |-> <<>>,
     interruption_frequency_noder |-> <<>>,
     interruption_duration_noder |-> <<>>,
     energy_not_served_noder |-> <<>>]

\* np.append of the batch's samples, lines 175-182
AppendSamples(a, state, lp, ens, load, n) ==
    LET st(i) == YearSlice(state, i - 1)
        lps(i) == YearSlice(lp, i - 1)
        en(i) == YearSlice(ens, i - 1)
    IN  [interruption_frequency |->
            a.interruption_frequency \o [i \in 1..n |-> SampleIf(st(i))],
         interruption_duration |->
            a.interruption_duration \o [i \in 1..n |-> SampleId(st(i))],
         energy_not_served |->
            a.energy_not_served \o [i \in 1..n |-> SampleEns(en(i), st(i))],
         energy_from_grid |->
            a.energy_from_grid
                \o [i \in 1..n |-> SampleEnergyFromGrid(en(i), st(i))],
         interruption_frequency_noder |->
            a.interruption_frequency_noder
                \o [i \in 1..n |-> SampleIf(lps(i))],
         interruption_duration_noder |->
            a.interruption_duration_noder
                \o [i \in 1..n |-> SampleId(lps(i))],
         energy_not_served_noder |->
            a.energy_not_served_noder
                \o [i \in 1..n |-> SampleEnsNoder(load, lps(i))]]

\* np.sqrt(np.var(x) / year_counter) / np.mean(x), squared: with N = len(x)
\* and S = sum(x), var = sum((N x - S)^2) / N^3 and mean = S / N.  The
\* samples are never negative, so the quotient is never negative; 0 / 0 is
\* nan and a positive number over 0 is inf.
CoefficientOfVariation(x, counter) ==
    LET N == Len(x)
        S == SumSeq(x)
        D == SumSeq([j \in 1..N |-> (N * x[j] - S) * (N * x[j] - S)])
    IN  IF S = 0 THEN (IF D = 0 THEN NaN ELSE Inf)
        ELSE Ratio(D, N * counter * S * S)

\* a > b of two floats that are never negative, given by their squares
Greater(a, b) ==
    CASE a.kind = "nan" \/ b.kind = "nan" -> FALSE
      [] b.kind = "inf" -> FALSE
      [] a.kind = "inf" -> TRUE
      [] OTHER -> a.num * b.den > b.num * a.den

\* the smaller of the two
PyMax_Min(a, b) == IF Greater(b, a) THEN a ELSE b

\* Python's max(a, b): b if b > a, else a
PyMax(a, b) == IF Greater(b, a) THEN b ELSE a

\* the square of the threshold
Squared(t) == Ratio(t.num * t.num, t.den * t.den)

\* the test of the while loop, line 96
LoopTest(c, threshold) == Greater(c, Squared(threshold))

\* x.mean(): nan for an empty array
Mean(x) == IF x = <<>> THEN NaN ELSE Ratio(SumSeq(x), Len(x))

\* lines 192-209
Indices(a, load) ==
    [AID |-> Mean(a.interruption_duration),
     AIF |-> Mean(a.interruption_frequency),
     AENS |-> Mean(a.energy_not_served),
     AEFG |-> Mean(a.energy_from_grid),
     AIF_noder |-> Mean(a.interruption_frequency_noder),
     AID_noder |-> Mean(a.interruption_duration_noder),
     AENS_noder |-> Mean(a.energy_not_served_noder),
     AEFG_noder |-> Ratio(SumSeq(load), 1)]

\* The yearly samples as the specification words them, over the hours of
\* year i (hour h of the run is position h of the sequences, from 1).  They
\* are summed in ref beside the code's accumulators and read by the
\* properties only.
YearHours(i) == (Hours(i) + 1)..Hours(i + 1)

\* the sum of value[h] over the h of S
SumOver(S, value) ==
    LET sum[R \in SUBSET S] ==
            IF R = {} THEN 0
            ELSE LET h == CHOOSE x \in R : TRUE
                 IN  value[h] + sum[R \ {h}]
    IN  sum[S]

RefInterruptions(state, i) ==
    Cardinality({h \in YearHours(i) :
                    (h + 1) \in YearHours(i) /\ state[h] /\ ~state[h + 1]})

RefDuration(state, i) == Cardinality({h \in YearHours(i) : ~state[h]})

RefEnergy(value, state, i, flag) ==
    SumOver({h \in YearHours(i) : state[h] = flag}, value)

EmptyRef ==
    [years |-> 0, AIF |-> 0, AID |-> 0, AENS |-> 0, AEFG |-> 0,
     AIF_noder |-> 0, AID_noder |-> 0, AENS_noder |-> 0, AEFG_noder |-> 0]

RefAdd(r, state, lp, ens, load, n) ==
    LET Y == 0..(n - 1)
        unserved == ens
        raw == [h \in DOMAIN lp |-> LoadAt(load, h - 1)]
        if == [i \in Y |-> RefInterruptions(state, i)]
        id == [i \in Y |-> RefDuration(state, i)]
        ens_ == [i \in Y |-> RefEnergy(unserved, state, i, FALSE)]
        efg == [i \in Y |-> RefEnergy(unserved, state, i, TRUE)]
        if_noder == [i \in Y |-> RefInterruptions(lp, i)]
        id_noder == [i \in Y |-> RefDuration(lp, i)]
        ens_noder == [i \in Y |-> RefEnergy(raw, lp, i, FALSE)]
        efg_noder == [i \in Y |-> RefEnergy(raw, lp, i, TRUE)]
    IN  [years |-> r.years + n,
         AIF |-> r.AIF + SumOver(Y, if),
         AID |-> r.AID + SumOver(Y, id),
         AENS |-> r.AENS + SumOver(Y, ens_),
         AEFG |-> r.AEFG + SumOver(Y, efg),
         AIF_noder |-> r.AIF_noder + SumOver(Y, if_noder),
         AID_noder |-> r.AID_noder + SumOver(Y, id_noder),
         AENS_noder |-> r.AENS_noder + SumOver(Y, ens_noder),
         AEFG_noder |-> r.AEFG_noder + SumOver(Y, efg_noder)]

\* while cov > cov_convergence: the head of a batch, lines 96-101
EvalEnterBatch ==
    /\ pc = "c_while"
    /\ prog = "customer_evaluation_grid_connected"
    /\ LoopTest(cov, cov_convergence)
    /\ year_counter < BatchYears * MaxBatches
    /\ years' = BatchYears
    /\ year_counter' = year_counter + BatchYears
    /\ EnterHistory("loadpoint_history", BatchYears)
    /\ pc' = "h_while"
    /\ stack' = <<"c_history_returned">> \o stack
    \* the previous batch's arrays are dead: each is rebound before it is read
    /\ load_point_history' = <<>>
    /\ lp_syn_history' = <<>>
    /\ residence_state' = <<>>
    /\ ens_by_der' = <<>>
    /\ UNCHANGED <<prog, boVars, mVars, eLocals, hourly_load,
                   acm_module_rating, solar_ghi, customer_der_type,
                   bess_state_of_charge_min, pv_capacity, bess_capacity,
                   bess_power_limit, cov_convergence, cov, acc, indices, ref>>

\* lines 101-109: the history is bound, equivalent_load is called
EvalCallEquivalentLoad ==
    /\ pc = "c_history_returned"
    /\ load_point_history' = h_state
    /\ lp_syn_history' = h_state
    /\ pc' = "e_start"
    /\ stack' = <<"c_load_returned">> \o stack
    /\ UNCHANGED <<prog, boVars, hVars, mVars, eLocals, hourly_load,
                   acm_module_rating, solar_ghi, years, customer_der_type,
                   bess_state_of_charge_min, pv_capacity, bess_capacity,
                   bess_power_limit, cov_convergence, cov, year_counter, acc,
                   residence_state, ens_by_der, indices, ref>>

\* lines 111-190: the states, the yearly samples, the accumulators and the
\* coefficient of variation.  The callees' frames are gone.
EvalAggregate ==
    /\ pc = "c_load_returned"
    /\ LET rounded == [k \in DOMAIN net_load |-> Round3(net_load[k])]
           net_load_state == [k \in DOMAIN rounded |-> rounded[k] <= 0]
           state == [k \in DOMAIN rounded |->
                        net_load_state[k] \/ load_point_history[k]]
           ens == [k \in DOMAIN rounded |->
                        IF rounded[k] < 0 THEN 0 ELSE rounded[k]]
           a == AppendSamples(acc, state, load_point_history, ens,
                              hourly_load, years)
           cov_interruption_frequency ==
               CoefficientOfVariation(a.interruption_frequency, year_counter)
           cov_interruption_duration ==
               CoefficientOfVariation(a.interruption_duration, year_counter)
       IN  /\ residence_state' = state
           /\ ens_by_der' = ens
           /\ acc' = a
           /\ cov' = PyMax(cov_interruption_frequency,
                           cov_interruption_duration)
           /\ ref' = RefAdd(ref, state, load_point_history, ens, hourly_load,
                            years)
    /\ pc' = "c_while"
    /\ ClearCallees
    /\ UNCHANGED <<prog, stack, acm_failure_rate, acm_repair_rate, eParams,
                   cov_convergence, year_counter, load_point_history,
                   indices>>

\* lines 192-211
EvalReturn ==
    /\ pc = "c_while"
    /\ prog = "customer_evaluation_grid_connected"
    /\ ~LoopTest(cov, cov_convergence)
    /\ indices' = Indices(acc, hourly_load)
    /\ Return
    /\ UNCHANGED <<prog, boVars, hVars, mVars, eParams, eLocals,
                   cov_convergence, cov, year_counter, acc,
                   load_point_history, residence_state, ens_by_der, ref>>

\* cov_convergence
Thresholds == {[num |-> 1, den |-> 2], [num |-> 1, den |-> 1]}

InitEval ==
    /\ prog = "customer_evaluation_grid_connected"
    /\ pc = "c_while" /\ stack = <<>>
    /\ cov_convergence \in Thresholds
    /\ cov = Ratio(1, 1)
    /\ year_counter = 0
    /\ acc = EmptyAcc
    /\ load_point_history = <<>> /\ residence_state = <<>>
    /\ ens_by_der = <<>> /\ indices = None
    /\ ref = EmptyRef
    /\ hourly_load \in LoadProfiles
    /\ acm_module_rating \in ModuleRatings
    /\ acm_failure_rate = 1
    /\ acm_repair_rate = 1
    /\ solar_ghi \in GhiProfiles
    /\ years = 0
    /\ customer_der_type \in {"no_der", "pv", "pv_bess"}
    /\ lp_syn_history = <<>>
    /\ bess_state_of_charge_min \in SocMins
    /\ pv_capacity = acm_module_rating
    /\ bess_capacity \in BessCapacities
    /\ bess_power_limit \in PowerLimits
    /\ IdleELocals
    /\ IdleBo /\ IdleH /\ IdleMLocals

NextEval ==
    \/ EvalEnterBatch
    \/ LoadpointHistoryStep
    \/ HistoryReturn
    \/ EvalCallEquivalentLoad
    \/ EquivalentLoadNoDer
    \/ EquivalentLoadCallMsmpv
    \/ MsmpvStep
    \/ MsmpvReturn
    \/ EquivalentLoadPv
    \/ EquivalentLoadCallBessHistory
    \/ BessHistoryStep
    \/ EquivalentLoadEnterLoop
    \/ EquivalentLoadHourGridConnected
    \/ EquivalentLoadReturn
    \/ EvalAggregate
    \/ EvalReturn

SpecEval == InitEval /\ [][NextEval]_vars

-----------------------------------------------------------------------------
(* Properties of the battery dispatch *)

\* the charge is within [soc_min, 1], the limits are sane
BessPrecondition(a) ==
    /\ a.capacity > 0
    /\ a.power_limit >= 0
    /\ 0 <= a.soc_min /\ a.soc_min <= a.soc /\ a.soc <= a.capacity

SocWithin(soc, soc_min, capacity) == soc_min <= soc /\ soc <= capacity

BessTypes == {"pv_bess", "pv_bess_standalone"}

\* C1: a call of bess_operation whose incoming charge is within [soc_min, 1]
\* (capacity positive, power limit not negative) returns a charge within
\* [soc_min, 1]; and through a whole run of equivalent_load with a battery,
\* which starts from the full charge, the charge is within [soc_min, 1] after
\* every hour.
C1_SocWithinLimits ==
    /\ (bo_ret # None /\ BessPrecondition(bo_args))
            => SocWithin(bo_ret.soc, bo_args.soc_min, bo_args.capacity)
    /\ (prog = "equivalent_load" /\ customer_der_type \in BessTypes)
            => /\ \A k \in DOMAIN soc_trace :
                    SocWithin(soc_trace[k], bess_state_of_charge_min,
                              bess_capacity)
               /\ (bo_args # None => BessPrecondition(bo_args))
               /\ (soc_trace # <<>>
                        => /\ soc_trace[1] = bess_capacity
                           /\ soc_trace[Len(soc_trace)] = bess_state_of_charge)

\* a finished run with a battery in which the charge fell to the minimum and
\* rose again
C1_Witness ==
    /\ prog = "equivalent_load" /\ pc = "done"
    /\ customer_der_type \in BessTypes
    /\ \E j \in DOMAIN soc_trace, k \in DOMAIN soc_trace :
        /\ j < k
        /\ soc_trace[j] = bess_state_of_charge_min
        /\ soc_trace[k] > soc_trace[j]

\* the decision rule of the specification, written from its words
RuleSurplus(a) == a.pv - a.load
RuleCharge(a) == Min(RuleSurplus(a), a.power_limit)
RuleHeadroom(a) == a.capacity - a.soc
RuleDischarge(a) == Min(-RuleSurplus(a), a.power_limit)
RuleAvailable(a) == a.soc - a.soc_min

\* C4: bess_operation follows the decision rule on every input.  A strictly
\* positive surplus charges: when the headroom strictly exceeds the charging
\* power the battery takes the charging power and the net load is the load
\* less the solar energy not stored, otherwise it takes the headroom and
\* becomes full.  A surplus of zero or less discharges: when the available
\* energy strictly exceeds the discharging power the battery gives the
\* discharging power, otherwise it gives what is available and ends at the
\* minimum.  Charge 0.5 of capacity 10, minimum 0.1, power limit 5, load 3 and
\* solar 8 give the full charge and the net load 0.
C4_DecisionRule ==
    bo_ret # None =>
        LET a == bo_args
            taken == IF RuleHeadroom(a) > RuleCharge(a)
                     THEN RuleCharge(a) ELSE RuleHeadroom(a)
            given == IF RuleAvailable(a) > RuleDischarge(a)
                     THEN RuleDischarge(a) ELSE RuleAvailable(a)
        IN  /\ RuleSurplus(a) > 0 =>
                /\ bo_ret.net_load = a.load - (a.pv - taken)
                /\ bo_ret.soc = IF RuleHeadroom(a) > RuleCharge(a)
                                THEN a.soc + RuleCharge(a) ELSE a.capacity
            /\ RuleSurplus(a) <= 0 =>
                /\ bo_ret.net_load = a.load - given - a.pv
                /\ bo_ret.soc = IF RuleAvailable(a) > RuleDischarge(a)
                                THEN a.soc - RuleDischarge(a) ELSE a.soc_min
            /\ a = BessArgs(5, 5, 1, 10, 3, 8)
                    => bo_ret = [net_load |-> 0, soc |-> 10]

\* the example: the headroom equals the charging power
C4_Witness ==
    /\ prog = "bess_operation" /\ pc = "done"
    /\ bo_args = BessArgs(5, 5, 1, 10, 3, 8)
    /\ bo_ret = [net_load |-> 0, soc |-> 10]

-----------------------------------------------------------------------------
(* Properties of the history generators *)

\* C2: bess_history and loadpoint_history return an array of exactly
\* 8760 * years entries; a down-sojourn is written as False on the hours of
\* the sojourn that lie within the horizon and nowhere else, the array never
\* grows, and a sojourn that starts or ends at or after the horizon raises no
\* indexing error.
C2_HistoryWithinHorizon ==
    h_fn \in {"bess_history", "loadpoint_history"} =>
        /\ DOMAIN h_state = 1..Hours(h_years)
        /\ pc \notin {"IndexError", "ValueError"}
        /\ h_last # None =>
            LET lo == h_last.T0 + h_last.time_to_failure
                hi == lo + h_last.time_to_repair
            IN  /\ h_last.written
                      = {i \in 0..(Hours(h_years) - 1) : lo <= i /\ i < hi}
                /\ \A i \in h_last.written : ~At(h_state, i)
                /\ h_T = hi

\* a down-sojourn that starts within the horizon and ends after it
C2_Witness ==
    /\ h_fn \in {"bess_history", "loadpoint_history"}
    /\ h_last # None
    /\ h_last.T0 + h_last.time_to_failure < Hours(h_years)
    /\ h_last.T0 + h_last.time_to_failure + h_last.time_to_repair
            > Hours(h_years)
    /\ h_last.written # {}

-----------------------------------------------------------------------------
(* Properties of the multi-state PV model *)

MsmpvReturned ==
    \/ prog = "msmpv" /\ pc = "done"
    \/ pc = "e_msmpv_returned"

\* C3: with n modules the state of msmpv stays within 1..n+1; every transition
\* goes to an adjacent state, from state 1 only to state 2 and from state n+1
\* only to state n; and every hour of the returned output is at most n times
\* the per-module output of that hour, which equivalent_load limits to the
\* module rating.
C3_PvStateAdjacent ==
    /\ pc = "m_while" => pv_state \in 1..(number_of_modules + 1)
    /\ m_last # None =>
        /\ m_last.from \in 1..(number_of_modules + 1)
        /\ m_last.to \in 1..(number_of_modules + 1)
        /\ m_last.to \in {m_last.from - 1, m_last.from + 1}
        /\ (m_last.from = 1 => m_last.to = 2)
        /\ (m_last.from = number_of_modules + 1
                => m_last.to = number_of_modules)
    /\ MsmpvReturned =>
        /\ DOMAIN pv_output = 1..Hours(m_years)
        /\ \A k \in DOMAIN pv_output :
                pv_output[k] <= number_of_modules
                    * hourly_output_per_module[((k - 1) % HoursPerYear) + 1]
    /\ pc = "e_msmpv_returned" =>
        \A k \in DOMAIN pv_output :
            pv_output[k] <= number_of_modules * acm_module_rating

\* the chain has left the state with every module failed, with more than one
\* module
C3_Witness ==
    /\ m_last # None
    /\ number_of_modules = MaxModules
    /\ m_last.from = number_of_modules + 1
    /\ m_last.to = number_of_modules
    /\ pc = "m_while"

-----------------------------------------------------------------------------
(* Properties of the net-load composition *)

\* the load of the hour t of the horizon, counted from 0: the one-year
\* profile repeated
TiledLoad(t) == hourly_load[(t % HoursPerYear) + 1]

\* C9: for a customer without DER equivalent_load returns the one-year load
\* profile repeated over the simulated years, hour by hour; the load profile
\* is left as it was, and no history and no PV output is sampled.
C9_NoDerTiled ==
    (prog = "equivalent_load" /\ customer_der_type = "no_der" /\ pc = "done")
        => /\ DOMAIN net_load = 1..Hours(years)
           /\ \A k \in DOMAIN net_load : net_load[k] = TiledLoad(k - 1)
           /\ hourly_load \in LoadProfiles
           /\ h_fn = Unset /\ h_last = None
           /\ m_years = 0 /\ m_last = None /\ pv_output = <<>>
           /\ bo_args = None

\* a finished run without DER over more than one year, on a load that is not
\* the same every hour
C9_Witness ==
    /\ prog = "equivalent_load" /\ customer_der_type = "no_der"
    /\ pc = "done"
    /\ years > 1
    /\ \E k \in DOMAIN net_load : net_load[k] # net_load[1]
    /\ net_load[HoursPerYear + 1] = hourly_load[1]

\* the charge left by the latest hour before t in which the battery was up;
\* the full charge if there is none
ChargeBefore(t) ==
    LET ups == {j \in 0..(t - 1) : At(bess_state, j)}
    IN  IF ups = {}
        THEN bess_capacity
        ELSE LET j == CHOOSE i \in ups : \A l \in ups : l <= i
             IN  soc_trace[j + 2]

\* C10: in a 'pv_bess' run every hour done is composed by the state of the
\* battery first.  Battery up: the net load and the charge are those of
\* bess_operation on the hour's load, the hour's PV output and the charge
\* left by the previous battery-up hour, whatever the state of the load
\* point.  Battery down, load point up: load less PV output.  Battery down,
\* load point down: the load.  A battery-down hour leaves the charge alone.
C10_GridConnectedHour ==
    (prog = "equivalent_load" /\ customer_der_type = "pv_bess"
        /\ pc \in {"e_for", "done"})
        => /\ Len(soc_trace) = T + 1
           /\ \A t \in 0..(T - 1) :
                IF At(bess_state, t)
                THEN [net_load |-> At(net_load, t), soc |-> soc_trace[t + 2]]
                        = BessOperation(bess_power_limit, ChargeBefore(t),
                                        bess_state_of_charge_min,
                                        bess_capacity, TiledLoad(t),
                                        At(pv_system_output, t))
                ELSE /\ soc_trace[t + 2] = soc_trace[t + 1]
                     /\ At(net_load, t) =
                            IF At(lp_syn_history, t)
                            THEN TiledLoad(t) - At(pv_system_output, t)
                            ELSE TiledLoad(t)

\* a finished 'pv_bess' run with the three kinds of hour: a battery-up hour
\* with the load point down that takes up a charge below the full one across
\* a battery-down hour, a battery-down hour with the load point up and one
\* with the load point down
C10_Witness ==
    /\ prog = "equivalent_load" /\ customer_der_type = "pv_bess"
    /\ pc = "done"
    /\ \E t \in 1..(T - 1) :
        /\ At(bess_state, t) /\ ~At(bess_state, t - 1)
        /\ ~At(lp_syn_history, t)
        /\ ChargeBefore(t) < bess_capacity
        /\ soc_trace[t + 2] # soc_trace[t + 1]
    /\ \E t \in 0..(T - 1) : ~At(bess_state, t) /\ At(lp_syn_history, t)
                                /\ At(pv_system_output, t) > 0
    /\ \E t \in 0..(T - 1) : ~At(bess_state, t) /\ ~At(lp_syn_history, t)
                                /\ At(pv_system_output, t) > 0

-----------------------------------------------------------------------------
(* Properties of the evaluation loop *)

Evaluating == prog = "customer_evaluation_grid_connected"

\* between two batches, or returned
BetweenBatches == pc \in {"c_while", "done"}

SumOfSquares(x) == SumSeq([j \in DOMAIN x |-> x[j] * x[j]])

\* sqrt(variance / total years) / mean <= threshold for the samples x with a
\* mean that is not zero: with N years, sum S and sum of squares Q the
\* variance is Q / N - (S / N)^2, so the square of the quotient is
\* (N Q - S^2) / (N S^2)
CovWithin(x, threshold) ==
    LET N == Len(x)
        S == SumSeq(x)
        Q == SumOfSquares(x)
    IN  (N * Q - S * S) * threshold.den * threshold.den
            <= threshold.num * threshold.num * N * S * S

MeansNonZero(a) ==
    /\ SumSeq(a.interruption_frequency) # 0
    /\ SumSeq(a.interruption_duration) # 0

Converged(a, threshold) ==
    /\ CovWithin(a.interruption_frequency, threshold)
    /\ CovWithin(a.interruption_duration, threshold)

\* C5: the evaluation runs whole batches of BatchYears years and keeps one
\* sample per simulated year.  With both means non-zero after a batch, it
\* returns after that batch only if both coefficients of variation, taken
\* over all the years accumulated, are at or below the threshold, and it
\* starts a further batch only if one of them is above it: so the batch it
\* returns after is the first one that meets the threshold.
C5_StopRule ==
    Evaluating =>
        /\ year_counter % BatchYears = 0
        /\ Len(acc.interruption_frequency) = Len(acc.interruption_duration)
        /\ Len(acc.interruption_frequency) =
                IF BetweenBatches THEN year_counter
                ELSE year_counter - BatchYears
        /\ (pc = "done" /\ year_counter > 0 /\ MeansNonZero(acc))
                => Converged(acc, cov_convergence)
        /\ (~BetweenBatches /\ year_counter > BatchYears /\ MeansNonZero(acc))
                => ~Converged(acc, cov_convergence)
        /\ (pc = "c_while" /\ year_counter > 0 /\ MeansNonZero(acc)
                /\ year_counter < BatchYears * MaxBatches)
                => (LoopTest(cov, cov_convergence)
                        <=> ~Converged(acc, cov_convergence))

\* the evaluation has returned after its second batch, both means non-zero
C5_Witness ==
    /\ Evaluating /\ pc = "done"
    /\ year_counter = 2 * BatchYears
    /\ MeansNonZero(acc)
    /\ Len(acc.interruption_frequency) = year_counter

\* C6: after a batch that leaves the mean of the interruption frequency or of
\* the interruption duration at zero the evaluation does not return: it runs
\* another batch.  Stated on the returned state: the evaluation never returns
\* after a batch with one of the two means at zero.
C6_ZeroMeanNotConverged ==
    (Evaluating /\ pc = "done" /\ year_counter > 0) => MeansNonZero(acc)

\* C7: with a battery power limit that is not positive the evaluation of a
\* customer with a battery ends in a configuration error and produces no
\* renewal history, no PV output and no yearly sample.
C7_InvalidConfigurationRejected ==
    (Evaluating /\ customer_der_type = "pv_bess" /\ bess_power_limit <= 0)
        => /\ pc \in {"c_while", "ConfigurationError"}
           /\ year_counter = 0
           /\ h_fn = Unset /\ h_state = <<>>
           /\ pv_output = <<>>
           /\ acc = EmptyAcc

IndexNames ==
    {"AIF", "AID", "AENS", "AEFG",
     "AIF_noder", "AID_noder", "AENS_noder", "AEFG_noder"}

\* the index is the sum of the yearly samples over the number of years
IsMean(index, sum, n) ==
    /\ index.kind = "num"
    /\ index.num * n = sum * index.den

\* C8: every index returned after at least one batch is the arithmetic mean
\* over all the accumulated years of its per-year sample; the no-DER samples
\* are taken from the load point's availability and the raw load: drops of
\* the load point, its down hours, the raw load over its down hours and the
\* raw load over its up hours.
C8_IndicesAreMeans ==
    (Evaluating /\ pc = "done" /\ year_counter > 0)
        => /\ ref.years = year_counter
           /\ \A k \in IndexNames : IsMean(indices[k], ref[k], ref.years)

-----------------------------------------------------------------------------
(* Properties of the yearly samples *)

\* the batch just aggregated: its residence history is still bound
BatchAggregated ==
    /\ Evaluating
    /\ BetweenBatches
    /\ year_counter > 0
    /\ residence_state # <<>>

\* the hours h, counted from 0, of the set S at which the residence operates
\* and after which it does not
Interruptions(S) ==
    {h \in S : At(residence_state, h) /\ ~At(residence_state, h + 1)}

\* the hours of year i of the batch but the last one
InnerHours(i) == Hours(i)..(Hours(i + 1) - 2)

\* the interruption count kept for year i of the batch just aggregated
YearCount(i) ==
    acc.interruption_frequency[year_counter - BatchYears + i + 1]

\* C11: the interruption count of year i of a batch is the number of hours h
\* with 8760 i <= h < 8760 (i + 1) - 1 at which the residence operates while
\* it does not at h + 1.  The step from the last hour of a year to the first
\* hour of the next is counted in neither year, so the counts of the years of
\* a batch add up to no more than the interruptions of the whole batch
\* history.
C11_YearlyInterruptionCount ==
    BatchAggregated =>
        /\ Len(residence_state) = Hours(BatchYears)
        /\ \A i \in 0..(BatchYears - 1) :
                YearCount(i) = Cardinality(Interruptions(InnerHours(i)))
        /\ SumSeq([i \in 1..BatchYears |-> YearCount(i - 1)])
                <= Cardinality(Interruptions(0..(Hours(BatchYears) - 2)))
        /\ SumSeq([i \in 1..BatchYears |-> YearCount(i - 1)])
                + Cardinality(Interruptions(
                    {Hours(i) - 1 : i \in 1..(BatchYears - 1)}))
                = Cardinality(Interruptions(0..(Hours(BatchYears) - 2)))

\* a batch with an interruption across the boundary of two years, after a
\* batch with an interruption inside a year
C11_Witness ==
    /\ BatchAggregated
    /\ year_counter > BatchYears
    /\ \E k \in 1..(year_counter - BatchYears) :
            acc.interruption_frequency[k] > 0
    /\ \E i \in 1..(BatchYears - 1) : Interruptions({Hours(i) - 1}) # {}
    /\ \A i \in 0..(BatchYears - 1) : YearCount(i) = 0

-----------------------------------------------------------------------------
(* Properties of msmpv's buffer *)

MsmpvRunning == m_years > 0 /\ number_of_modules > 0

\* the output of hour h, counted from 0, with the chain in the given state
StateOutput(state, h) ==
    (number_of_modules - (state - 1))
        * At(hourly_output_per_module, h % HoursPerYear)

\* the latest sojourn is in the buffer, hour by hour
SojournWritten ==
    \A h \in m_last.T0..(m_last.T0 + m_last.time_to_transition - 1) :
        /\ h < Len(pv_output)
        /\ At(pv_output, h) = StateOutput(m_last.from, h)

\* C12: the margin of msmpv's buffer takes the overshoot of the last sojourn
\* whatever the draw: a sojourn that starts before the horizon raises no
\* error and is written whole, with the output of the state the chain is in,
\* and the history returned has exactly 8760 * years entries.
C12_MarginAbsorbsOvershoot ==
    MsmpvRunning =>
        /\ pc # "ValueError"
        /\ (pc = "m_while" /\ m_last # None) => SojournWritten
        /\ MsmpvReturned => Len(pv_output) = Hours(m_years)

\* the same but for the sojourns longer than what is left of the buffer
OvershootBeyondBufferOnly ==
    MsmpvRunning =>
        /\ pc = "ValueError"
                => m_last.T0 + m_last.time_to_transition
                        > Hours(m_years + MarginYears)
        /\ (pc = "m_while" /\ m_last # None) => SojournWritten
        /\ MsmpvReturned => Len(pv_output) = Hours(m_years)

-----------------------------------------------------------------------------
(* Properties of the returned indices *)

\* the indices that are means of the accumulated samples
MeanNames == IndexNames \ {"AEFG_noder"}

\* C13: whatever the threshold, 1 and above included, the evaluation has
\* completed at least one batch when it returns: no returned index is the
\* mean of an empty accumulator.
C13_AtLeastOneBatch ==
    (Evaluating /\ pc = "done")
        => /\ year_counter >= BatchYears
           /\ Len(acc.interruption_frequency) >= BatchYears
           /\ Len(acc.interruption_duration) >= BatchYears
           /\ \A k \in MeanNames : indices[k].kind = "num"

\* a <= b of two returned floats that are never negative; False if one is nan
AtMost(a, b) ==
    /\ a.kind = "num" /\ b.kind = "num"
    /\ a.num * b.den <= b.num * a.den

\* every hour in which the residence does not operate is an hour in which the
\* load point is down, in the batch just aggregated
DownWithinLoadPointDown ==
    residence_state # <<>> =>
        /\ DOMAIN residence_state = DOMAIN load_point_history
        /\ \A k \in DOMAIN residence_state :
                ~residence_state[k] => ~load_point_history[k]

\* the interruption duration of every accumulated year is at most the one
\* without DER
YearlyDurationAtMostNoDer ==
    /\ Len(acc.interruption_duration) = Len(acc.interruption_duration_noder)
    /\ \A k \in DOMAIN acc.interruption_duration :
            acc.interruption_duration[k] <= acc.interruption_duration_noder[k]

\* C14: in the evaluation, whatever the configuration and the histories, the
\* hours in which the residence does not operate are hours in which the load
\* point is down, so the interruption duration of every year is at most the
\* one without DER, and AID <= AID_noder when the evaluation returns.
C14_ResidenceDownWithinLoadPointDown ==
    Evaluating =>
        /\ DownWithinLoadPointDown
        /\ YearlyDurationAtMostNoDer
        /\ pc = "done" => AtMost(indices.AID, indices.AID_noder)

\* the same for the evaluations that return after at least one batch
DurationAtMostNoDerAfterBatch ==
    Evaluating =>
        /\ DownWithinLoadPointDown
        /\ YearlyDurationAtMostNoDer
        /\ (pc = "done" /\ year_counter > 0)
                => AtMost(indices.AID, indices.AID_noder)

=============================================================================
